---- MODULE Spec2Model ----
(***************************************************************************)
(* A model of derricw/publickey: the arithmetic of maths.py (primality     *)
(* testing, random prime and coprime search, modular inverse) and the      *)
(* block codec and cipher of dcrypt.py (text2int, int2text, encrypt,       *)
(* decrypt, generate_key_pair).                                            *)
(*                                                                         *)
(* Python integers are unbounded.  A key of 17 bits already has a modulus  *)
(* above 2^32, so every integer that the program computes with is held as  *)
(* a sequence of limbs, least significant first, radix BASE, without       *)
(* leading zero limbs: 6381921 is <<1921, 638>> and 0 is <<>>.  Sizes,     *)
(* indices, bit counts and character codes stay TLA+ integers.             *)
(***************************************************************************)
EXTENDS Integers, Sequences, FiniteSets, TLC

VARIABLES
    pc,          \* position of the running call
    msg,         \* the message: a sequence of character codes
    block_size,  \* bytes per block
    ints,        \* integer blocks (text2int's result, int2text's argument)
    text,        \* int2text's / decrypt's result: character codes, or the exception raised
    cipher,      \* encrypt's result: a sequence of blocks, or raised
    mod,         \* multinv's modulus
    val,         \* multinv's value
    inv,         \* multinv's result
    cand,        \* the integer under test in is_prime / the last draw
    attempts,    \* rabin_miller's round counter
    verdict,     \* is_prime's result
    start,       \* find_random_prime's lower bound (inclusive)
    stop,        \* find_random_prime's upper bound (exclusive)
    found,       \* find_random_prime's result
    key_size,    \* generate_key_pair's key_size
    use_default_exponent,
    p,           \* first prime of the key
    q,           \* second prime of the key
    e,           \* public exponent
    public_key,  \* <<n, e, key_size>>
    private_key  \* <<n, d, key_size>>

vars == <<pc, msg, block_size, ints, text, cipher, mod, val, inv, cand, attempts,
          verdict, start, stop, found, key_size, use_default_exponent, p, q, e,
          public_key, private_key>>

(***************************************************************************)
(* Python's int: unbounded naturals as limb sequences.                     *)
(***************************************************************************)
BASE == 10 ^ 4

Limb(a, i) == IF i <= Len(a) THEN a[i] ELSE 0

RECURSIVE BNorm(_)
BNorm(a) ==
    IF a = <<>> THEN a
    ELSE IF a[Len(a)] = 0 THEN BNorm(SubSeq(a, 1, Len(a) - 1))
    ELSE a

\* A TLA+ natural as a Python int.
RECURSIVE Big(_)
Big(i) == IF i = 0 THEN <<>> ELSE <<i % BASE>> \o Big(i \div BASE)

\* A Python int that fits a TLA+ integer.
RECURSIVE Small(_)
Small(a) == IF a = <<>> THEN 0 ELSE a[1] + BASE * Small(Tail(a))

RECURSIVE CmpFrom(_, _, _)
CmpFrom(a, b, i) ==
    IF i = 0 THEN 0
    ELSE IF a[i] > b[i] THEN 1
    ELSE IF a[i] < b[i] THEN -1
    ELSE CmpFrom(a, b, i - 1)

\* -1, 0, 1 as a < b, a = b, a > b.
BCmp(a, b) ==
    IF Len(a) > Len(b) THEN 1
    ELSE IF Len(a) < Len(b) THEN -1
    ELSE CmpFrom(a, b, Len(a))

BLt(a, b) == BCmp(a, b) < 0
BLe(a, b) == BCmp(a, b) <= 0

RECURSIVE AddFrom(_, _, _, _)
AddFrom(a, b, i, c) ==
    IF i > Len(a) /\ i > Len(b) THEN (IF c = 0 THEN <<>> ELSE <<c>>)
    ELSE LET s == Limb(a, i) + Limb(b, i) + c
         IN  <<s % BASE>> \o AddFrom(a, b, i + 1, s \div BASE)

BAdd(a, b) == AddFrom(a, b, 1, 0)

RECURSIVE SubFrom(_, _, _, _)
SubFrom(a, b, i, c) ==
    IF i > Len(a) THEN <<>>
    ELSE LET s == a[i] - Limb(b, i) - c
         IN  IF s < 0 THEN <<s + BASE>> \o SubFrom(a, b, i + 1, 1)
             ELSE <<s>> \o SubFrom(a, b, i + 1, 0)

\* a - b for a >= b.
BSub(a, b) == BNorm(SubFrom(a, b, 1, 0))

RECURSIVE MulFrom(_, _, _, _)
MulFrom(a, k, i, c) ==
    IF i > Len(a) THEN (IF c = 0 THEN <<>> ELSE <<c>>)
    ELSE LET s == a[i] * k + c
         IN  <<s % BASE>> \o MulFrom(a, k, i + 1, s \div BASE)

\* a * k for one limb k.
BMulSmall(a, k) == IF k = 0 THEN <<>> ELSE MulFrom(a, k, 1, 0)

BShift(a, k) == IF a = <<>> THEN a ELSE [i \in 1..k |-> 0] \o a

RECURSIVE MulAcc(_, _, _)
MulAcc(a, b, i) ==
    IF i > Len(b) THEN <<>>
    ELSE BAdd(BShift(BMulSmall(a, b[i]), i - 1), MulAcc(a, b, i + 1))

BMul(a, b) == MulAcc(a, b, 1)

\* The largest k in lo..hi with k * b <= cur, given lo * b <= cur.
RECURSIVE QDigit(_, _, _, _)
QDigit(cur, b, lo, hi) ==
    IF lo >= hi THEN lo
    ELSE LET mid == (lo + hi + 1) \div 2
         IN  IF BLe(BMulSmall(b, mid), cur) THEN QDigit(cur, b, mid, hi)
             ELSE QDigit(cur, b, lo, mid - 1)

\* One step of long division: the quotient limb of cur by b, for cur < b * BASE.
QLimb(cur, b) ==
    IF BLt(cur, b) THEN 0
    ELSE LET t  == b[Len(b)]
             ct == Limb(cur, Len(b) + 1) * BASE + Limb(cur, Len(b))
             hi == IF ct \div t < BASE - 1 THEN ct \div t ELSE BASE - 1
         IN  QDigit(cur, b, ct \div (t + 1), hi)

RECURSIVE DivFrom(_, _, _, _, _)
DivFrom(a, b, i, quo, rem) ==
    IF i = 0 THEN <<BNorm(quo), rem>>
    ELSE LET cur == BNorm(<<a[i]>> \o rem)
             dg  == QLimb(cur, b)
         IN  DivFrom(a, b, i - 1, <<dg>> \o quo, BSub(cur, BMulSmall(b, dg)))

\* Division by one limb k > 0, limb by limb from the top.
\* st is <<index, quotient limbs, remainder>>.
RECURSIVE DivSmallLoop(_, _, _)
DivSmallLoop(a, k, st) ==
    IF st[1] = 0 THEN <<BNorm(st[2]), Big(st[3])>>
    ELSE LET c == st[3] * BASE + a[st[1]]
         IN  DivSmallLoop(a, k, <<st[1] - 1, <<c \div k>> \o st[2], c % k>>)

\* <<a // b, a % b>> for b > 0.
BDivMod(a, b) ==
    IF Len(b) = 1 THEN DivSmallLoop(a, b[1], <<Len(a), <<>>, 0>>)
    ELSE DivFrom(a, b, Len(a), <<>>, <<>>)
BDiv(a, b) == BDivMod(a, b)[1]
BMod(a, b) == BDivMod(a, b)[2]

\* a ** k for a TLA+ natural k.  st is <<result, remaining factors>>.
RECURSIVE PowerLoop(_, _)
PowerLoop(st, a) == IF st[2] = 0 THEN st[1] ELSE PowerLoop(<<BMul(st[1], a), st[2] - 1>>, a)

BPow(a, k) == PowerLoop(<<<<1>>, k>>, a)

\* pow(b, x, m), m > 0, by binary exponentiation.  st is <<result, base, exponent>>.
RECURSIVE PowLoop(_, _)
PowLoop(st, m) ==
    IF st[3] = <<>> THEN st[1]
    ELSE LET h == BDivMod(st[3], <<2>>)
         IN  PowLoop(<<IF h[2] = <<>> THEN st[1] ELSE BMod(BMul(st[1], st[2]), m),
                       BMod(BMul(st[2], st[2]), m),
                       h[1]>>, m)

BPowMod(b, x, m) == PowLoop(<<BMod(<<1>>, m), BMod(b, m), x>>, m)

\* a % k for one limb k > 0, limb by limb from the top.  st is <<index, remainder>>.
RECURSIVE ModSmallLoop(_, _, _)
ModSmallLoop(a, k, st) ==
    IF st[1] = 0 THEN st[2]
    ELSE ModSmallLoop(a, k, <<st[1] - 1, (st[2] * BASE + a[st[1]]) % k>>)

BModSmall(a, k) == ModSmallLoop(a, k, <<Len(a), 0>>)

\* Signed Python ints: a sign and a magnitude; zero is not negative.
ZMk(neg, mag) == [neg |-> neg /\ mag # <<>>, mag |-> mag]
ZNat(a) == ZMk(FALSE, a)
ZAdd(u, v) ==
    IF u.neg = v.neg THEN ZMk(u.neg, BAdd(u.mag, v.mag))
    ELSE IF BLe(v.mag, u.mag) THEN ZMk(u.neg, BSub(u.mag, v.mag))
    ELSE ZMk(v.neg, BSub(v.mag, u.mag))
ZSub(u, v) == ZAdd(u, ZMk(~v.neg, v.mag))
ZMulNat(u, a) == ZMk(u.neg, BMul(u.mag, a))
\* u // a for a > 0: Python rounds the quotient down.
ZFloorDiv(u, a) ==
    LET dm == BDivMod(u.mag, a)
    IN  IF ~u.neg THEN ZNat(dm[1])
        ELSE ZMk(TRUE, IF dm[2] = <<>> THEN dm[1] ELSE BAdd(dm[1], <<1>>))

(***************************************************************************)
(* dcrypt.py: the block codec.  A string is a sequence of character codes; *)
(* the messages of the model are ASCII (codes 0..127), so encode("ascii")  *)
(* is the identity on them.                                                *)
(***************************************************************************)
DEFAULT_EXP == 65537
DEFAULT_BLOCK_SIZE == 128

Min(a, b) == IF a < b THEN a ELSE b

\* str.rstrip("\0")
RECURSIVE rstrip(_)
rstrip(s) ==
    IF s # <<>> /\ s[Len(s)] = 0 THEN rstrip(SubSeq(s, 1, Len(s) - 1)) ELSE s

\* block_msg[::-1]
Reverse(s) == [i \in 1..Len(s) |-> s[Len(s) + 1 - i]]

\* 256 ** (i % block_size): the weight of the byte at index i.
ByteWeightAbsolute(i, size) == BPow(<<256>>, i)
ByteWeight(i, size) == BPow(<<256>>, i % size)

\* for i in range(i, hi): block_val += msg[i] * (256 ** (i % block_size))
\* st is <<i, block_val>>.
RECURSIVE BlockVal(_, _, _, _)
BlockVal(m, size, hi, st) ==
    IF st[1] >= hi THEN st[2]
    ELSE BlockVal(m, size, hi,
                  <<st[1] + 1,
                    BAdd(st[2], BMul(Big(m[st[1] + 1]), ByteWeight(st[1], size)))>>)

\* The end of the window that starts at block: min(block + block_size, len(msg)).
WindowEndUnclipped(block, size, len) == IF block + size <= len THEN block + size ELSE block
WindowEnd(block, size, len) == Min(block + size, len)

\* for block in range(block, len(msg), block_size): ints.append(block_val)
\* st is <<block, ints>>.
RECURSIVE BlockLoop(_, _, _)
BlockLoop(m, size, st) ==
    IF st[1] >= Len(m) THEN st[2]
    ELSE BlockLoop(m, size,
                   <<st[1] + size,
                     Append(st[2], BlockVal(m, size, WindowEnd(st[1], size, Len(m)),
                                            <<st[1], <<>>>>))>>)

text2int(message, size) == BlockLoop(rstrip(message), size, <<0, <<>>>>)

\* chr(i) raises ValueError for i >= 0x110000 and OverflowError for i >= 2**31, past
\* a C int; an exception is a value no text equals.
ChrLimit == 17 * (2 ^ 16)
ValueError == <<-1>>
OverflowError == <<-2>>
Raised(x) == x \in {ValueError, OverflowError}

\* for i in range(i, -1, -1): char = block_int // (256 ** i); block_int %= (256 ** i);
\*                            block_msg.append(chr(char))
\* st is <<i, block_int, block_msg>>.
RECURSIVE BlockChars(_)
BlockChars(st) ==
    IF st[1] < 0 THEN st[3]
    ELSE LET dm == BDivMod(st[2], BPow(<<256>>, st[1]))
         IN  IF BLt(dm[1], Big(ChrLimit))
             THEN BlockChars(<<st[1] - 1, dm[2], Append(st[3], Small(dm[1]))>>)
             ELSE IF BLt(dm[1], BPow(<<2>>, 31)) THEN ValueError
             ELSE OverflowError

\* for block_int in ints: ...; msg.extend(block_msg[::-1])
\* st is <<index of the next block, msg>>.
RECURSIVE TextLoop(_, _, _)
TextLoop(blocks, size, st) ==
    IF st[1] > Len(blocks) THEN st[2]
    ELSE LET block_msg == BlockChars(<<size - 1, blocks[st[1]], <<>>>>)
         IN  IF Raised(block_msg) THEN block_msg
             ELSE TextLoop(blocks, size, <<st[1] + 1, st[2] \o Reverse(block_msg)>>)

int2text(blocks, size) ==
    LET m == TextLoop(blocks, size, <<1, <<>>>>)
    IN  IF Raised(m) THEN m ELSE rstrip(m)

(***************************************************************************)
(* maths.py: gcd and the modular inverse.                                  *)
(***************************************************************************)
\* fractions.gcd: while b: a, b = b, a % b.  st is <<a, b>>.
RECURSIVE GcdLoop(_)
GcdLoop(st) == IF st[2] = <<>> THEN st[1] ELSE GcdLoop(<<st[2], BMod(st[1], st[2])>>)

gcd(a, b) == GcdLoop(<<a, b>>)

\* while b: a, q, b = b, a // b, a % b;  x, lastx = lastx - q * x, x
\* st is <<a, b, x, lastx>>; the loop returns lastx.
RECURSIVE EuclidLoop(_)
EuclidLoop(st) ==
    IF st[2] = <<>> THEN st[4]
    ELSE LET dm == BDivMod(st[1], st[2])
         IN  EuclidLoop(<<st[2], dm[2], ZSub(st[4], ZMulNat(st[3], dm[1])), st[3]>>)

\* return result + mod if result < 0 else result
Normalize(result, modulus) == IF result.neg THEN ZAdd(result, ZNat(modulus)) ELSE result

\* multinv(mod, val) for mod, val >= 1.  The value returned is never negative there.
multinv(modulus, value) ==
    LET lastx  == EuclidLoop(<<modulus, value, ZNat(<<>>), ZNat(<<1>>)>>)
        result == ZFloorDiv(ZSub(ZNat(<<1>>), ZMulNat(lastx, modulus)), value)
    IN  Normalize(result, modulus).mag

(***************************************************************************)
(* maths.py: the sieve, is_prime and rabin_miller.                         *)
(***************************************************************************)
\* int(math.sqrt(n))
ISqrt(n) == CHOOSE r \in 0..n : r * r <= n /\ (r + 1) * (r + 1) > n

\* The indices prime_sieve crosses out: for i in range(2, int(sqrt(size)) + 1), the
\* pointers i*2, i*2 + i, ... below size.
Crossed(size) == {i * k : i \in 2..ISqrt(size), k \in 2..size} \cap 0..(size - 1)

\* prime_sieve(size): the indices left True, 0 and 1 being set False at the start.
prime_sieve(size) == (2..(size - 1)) \ Crossed(size)

FIRST_FEW_PRIMES == prime_sieve(1000)

\* is_prime before rabin_miller: "False" for n < 2, "True" for a prime of the sieve,
\* "False" for a multiple of one, and "rabin_miller" when the test is handed on.
IsPrimeSieve(n) ==
    IF BLt(n, <<2>>) THEN "False"
    ELSE IF Len(n) = 1 /\ n[1] \in FIRST_FEW_PRIMES THEN "True"
    ELSE IF \E prime \in FIRST_FEW_PRIMES : BModSmall(n, prime) = 0 THEN "False"
    ELSE "rabin_miller"

\* d = n - 1; r = 0; while d % 2 == 0: d = d // 2; r += 1.  st is <<d, r>>, n >= 2.
RECURSIVE FindRD(_)
FindRD(st) ==
    IF BModSmall(st[1], 2) = 0 THEN FindRD(<<BDiv(st[1], <<2>>), st[2] + 1>>) ELSE st

\* while x != (n - 1): if i == (r - 1): return False; else: x = (x ** 2) % n; i += 1
\* st is <<x, i>>; FALSE when the loop returns False, TRUE when it ends.
RECURSIVE WitnessLoop(_, _, _)
WitnessLoop(st, n, r) ==
    IF st[1] = BSub(n, <<1>>) THEN TRUE
    ELSE IF st[2] = r - 1 THEN FALSE
    ELSE WitnessLoop(<<BMod(BMul(st[1], st[1]), n), st[2] + 1>>, n, r)

\* One round of the witness loop with the base a drawn: FALSE when rabin_miller
\* returns False in it.
RabinMillerRoundSkipsOne(n, a) ==
    LET rd == FindRD(<<BSub(n, <<1>>), 0>>)
    IN  WitnessLoop(<<BPowMod(a, rd[1], n), 0>>, n, rd[2])
RabinMillerRound(n, a) ==
    LET rd == FindRD(<<BSub(n, <<1>>), 0>>)
        x  == BPowMod(a, rd[1], n)
    IN  IF x # <<1>> THEN WitnessLoop(<<x, 0>>, n, rd[2]) ELSE TRUE

\* rabin_miller's k: the rounds of the witness loop.
RabinMillerRounds == 5

\* rabin_miller(n) up to its first draw.  The loop for r and d runs first: with n = 1
\* it starts at d = 0 and never ends ("while_d_even"); with n = 0 (d = -1), 2 and 3
\* it ends, and random.randrange(2, n-1) then raises ValueError on its empty range.
RabinMillerStart(n) ==
    IF n = <<1>> THEN "while_d_even"
    ELSE IF BLe(n, <<3>>) THEN "ValueError"
    ELSE "witness_loop"

(***************************************************************************)
(* random.randrange(lo, hi): the draws of the model.  A range of at most   *)
(* 2 * edge integers is drawn from in full; of a wider one the model draws *)
(* the edge lowest, the edge highest and the probes that lie in it.        *)
(***************************************************************************)
DrawEdge == 6
FullBaseMax == 1009

known_prime == <<673, 8249, 1091>>                \* 109182490673
\* 990: a base for which 1018081 = 1009^2 passes a round of rabin_miller.
\* 65521: the greatest prime below 2^16.
\* 917519 = 14 * 65537 + 1: a prime p with DEFAULT_EXP dividing p - 1.
Probes == {<<990>>, Big(65521), Big(917519), Big(1009 * 1009)}

randrangeInclusive(lo, hi, edge) ==
    IF BLe(hi, BAdd(lo, Big(2 * edge)))
    THEN {BAdd(lo, Big(j)) : j \in 0..Small(BSub(hi, lo))}
    ELSE {BAdd(lo, Big(j)) : j \in 0..(edge - 1)}
         \cup {BSub(hi, Big(j)) : j \in 0..edge}
         \cup {x \in Probes : BLe(lo, x) /\ BLt(x, hi)}
randrange(lo, hi, edge) ==
    IF ~BLt(lo, hi) THEN {}      \* the range on which randrange raises ValueError
    ELSE IF BLe(hi, BAdd(lo, Big(2 * edge)))
    THEN {BAdd(lo, Big(j)) : j \in 0..(Small(BSub(hi, lo)) - 1)}
    ELSE {BAdd(lo, Big(j)) : j \in 0..(edge - 1)}
         \cup {BSub(hi, Big(j)) : j \in 1..edge}
         \cup {x \in Probes : BLe(lo, x) /\ BLt(x, hi)}

\* a = random.randrange(2, n - 1), n >= 2: in full for n up to FullBaseMax.
BaseEdge == 1
Bases(n) ==
    randrange(<<2>>, BSub(n, <<1>>),
              IF BLe(n, Big(FullBaseMax)) THEN FullBaseMax ELSE BaseEdge)

(***************************************************************************)
(* dcrypt.py: the cipher and the keys.  A key is <<n, exponent, size>>.    *)
(***************************************************************************)
\* encrypt's check: if size <= block_size * 8: raise Exception(...)
KeyTooSmallStrict(key, size) == key[3] < size * 8
KeyTooSmall(key, size) == key[3] <= size * 8

\* [pow(block, exponent, n) for block in blocks]
PowBlocks(blocks, key) == [j \in 1..Len(blocks) |-> BPowMod(blocks[j], key[2], key[1])]

\* encrypt past its check, and decrypt.
encrypt(message, key, size) == PowBlocks(text2int(message, size), key)
decrypt(encrypted_blocks, key, size) == int2text(PowBlocks(encrypted_blocks, key), size)

\* get_key_prime(size): find_random_prime(2**(size-1), 2**size), as <<start, stop>>.
KeyPrimeRange(size) == <<BPow(<<2>>, size - 1), BPow(<<2>>, size)>>

\* get_key_coprime(n, size): find_random_coprime(n, DEFAULT_EXP, 2**size); the bounds
\* of its draws, as <<start, stop>>.
KeyCoprimeRangeSized(size) == <<BPow(<<2>>, size), BPow(<<2>>, size + 1)>>
KeyCoprimeRange(size) == <<Big(DEFAULT_EXP), BPow(<<2>>, size)>>

\* x = (p-1)*(q-1)
Phi(pp, qq) == BMul(BSub(pp, <<1>>), BSub(qq, <<1>>))

(***************************************************************************)
(* Variables a specification does not use keep these values.               *)
(***************************************************************************)
codecVars == <<msg, block_size, ints, text, cipher>>
invVars   == <<mod, val, inv>>
primeVars == <<cand, attempts, verdict>>
findVars  == <<start, stop, found>>
keyVars   == <<key_size, use_default_exponent, p, q, e, public_key, private_key>>

CodecIdle == msg = <<>> /\ block_size = 1 /\ ints = <<>> /\ text = <<>> /\ cipher = <<>>
InvIdle   == mod = <<>> /\ val = <<>> /\ inv = <<>>
PrimeIdle == cand = <<>> /\ attempts = 0 /\ verdict = FALSE
FindIdle  == start = <<>> /\ stop = <<>> /\ found = <<>>
KeyIdle   == /\ key_size = 0 /\ use_default_exponent = TRUE
             /\ p = <<>> /\ q = <<>> /\ e = <<>>
             /\ public_key = <<>> /\ private_key = <<>>

(***************************************************************************)
(* Spec: the codec.  text2int encodes a message and int2text decodes the   *)
(* blocks; int2text is also handed blocks that no message encodes to, as   *)
(* decrypt hands them over with a mismatched key or block size.            *)
(***************************************************************************)
MaxMsgLen == 4
MaxBlockSize == 3
MaxRawBlocks == 2

\* NUL, 'a' and DEL: the least, a middle and the greatest ASCII code.
Chars == {0, 97, 127}
Messages == UNION {[1..k -> Chars] : k \in 0..MaxMsgLen}

\* Blocks below, at and above 256 and 256^2, 256^3, and at chr()'s two limits.
RawValues == {<<>>, <<97>>, <<255>>, <<256>>, Big(65535), Big(65536),
              Big(256 * 65536), Big(ChrLimit), BPow(<<2>>, 31)}
RawBlocks == UNION {[1..k -> RawValues] : k \in 1..MaxRawBlocks}

CodecInit ==
    /\ block_size \in 1..MaxBlockSize
    /\ \/ pc = "text2int" /\ msg \in Messages /\ ints = <<>>
       \/ pc = "int2text" /\ msg = <<>> /\ ints \in RawBlocks
    /\ text = <<>> /\ cipher = <<>>
    /\ InvIdle /\ PrimeIdle /\ FindIdle /\ KeyIdle

Text2Int ==
    /\ pc = "text2int"
    /\ ints' = text2int(msg, block_size)
    /\ pc' = "encoded"
    /\ UNCHANGED <<msg, block_size, text, cipher, invVars, primeVars, findVars, keyVars>>

Int2Text ==
    /\ pc \in {"encoded", "int2text"}
    /\ text' = int2text(ints, block_size)
    /\ pc' = IF pc = "encoded" THEN "decoded" ELSE "emitted"
    /\ UNCHANGED <<msg, block_size, ints, cipher, invVars, primeVars, findVars, keyVars>>

CodecNext == Text2Int \/ Int2Text

Spec == CodecInit /\ [][CodecNext]_vars

(***************************************************************************)
(* Claims about the codec.                                                 *)
(***************************************************************************)
HasInnerNul(m) == \E i \in 1..Len(m) - 1 : m[i] = 0

\* C2: for every ASCII message m that does not end in NUL and every block_size >= 1,
\* int2text(text2int(m, block_size), block_size) = m: same length, same characters,
\* also when the length is no multiple of block_size and when m holds NULs inside.
C2_RoundTrip ==
    (pc = "decoded" /\ rstrip(msg) = msg) => (text = msg /\ Len(text) = Len(msg))

C2_Witness ==
    /\ pc = "decoded" /\ rstrip(msg) = msg /\ text = msg
    /\ HasInnerNul(msg) /\ Len(msg) % block_size # 0 /\ Len(msg) > block_size

\* The value of the bytes m[lo+1..hi], least significant first, by Horner's rule.
RECURSIVE WindowValue(_, _, _)
WindowValue(m, lo, hi) ==
    IF lo >= hi THEN <<>>
    ELSE BAdd(Big(m[lo + 1]), BMulSmall(WindowValue(m, lo + 1, hi), 256))

CeilDiv(a, b) == (a + b - 1) \div b

\* C7: text2int returns exactly ceil(L / block_size) blocks for a message of
\* NUL-stripped length L, block j being the sum of byte[j*block_size + i] * 256^i
\* over the bytes of its window.
C7_BlockCount ==
    pc \in {"encoded", "decoded"} =>
        LET m == rstrip(msg)
        IN  /\ Len(ints) = CeilDiv(Len(m), block_size)
            /\ \A j \in 0..Len(ints) - 1 :
                   ints[j + 1] = WindowValue(m, j * block_size,
                                             Min(Len(m), (j + 1) * block_size))

\* A message one byte longer than a block: two blocks, the second the last byte alone.
C7_Witness ==
    /\ pc = "encoded" /\ rstrip(msg) = msg /\ Len(msg) = block_size + 1
    /\ block_size > 1
    /\ Len(ints) = 2 /\ ints[2] = Big(msg[Len(msg)])

\* The bytes (block div 256^i) mod 256 for i = 0 .. size-1, block after block.
BlockBytes(block, size) ==
    [i \in 1..size |-> Small(BMod(BDiv(block, BPow(<<256>>, i - 1)), <<256>>))]

RECURSIVE ClaimedText(_, _)
ClaimedText(blocks, size) ==
    IF blocks = <<>> THEN <<>>
    ELSE BlockBytes(Head(blocks), size) \o ClaimedText(Tail(blocks), size)

\* C10: for every sequence of non-negative blocks, also blocks of 256^block_size and
\* more, int2text emits per block the bytes (block div 256^i) mod 256 for
\* i = 0 .. block_size-1 in that order, so every character has a code in 0..255.
C10_ByteCodes ==
    pc \in {"emitted", "decoded"} =>
        /\ text = rstrip(ClaimedText(ints, block_size))
        /\ \A i \in 1..Len(text) : text[i] \in 0..255

(***************************************************************************)
(* SpecInv: multinv on every pair of a modulus and a value up to the       *)
(* bounds, coprime or not, the value below and above the modulus.          *)
(***************************************************************************)
MaxModulus == 12
MaxValue == 30

InvInit ==
    /\ pc = "multinv"
    /\ mod \in {Big(i) : i \in 1..MaxModulus}
    /\ val \in {Big(i) : i \in 1..MaxValue}
    /\ inv = <<>>
    /\ CodecIdle /\ PrimeIdle /\ FindIdle /\ KeyIdle

Multinv ==
    /\ pc = "multinv"
    /\ inv' = multinv(mod, val)
    /\ pc' = "inverted"
    /\ UNCHANGED <<mod, val, codecVars, primeVars, findVars, keyVars>>

InvNext == Multinv

SpecInv == InvInit /\ [][InvNext]_vars

\* C4: for every mod >= 1 and val >= 1 with gcd(mod, val) = 1, val below or above
\* mod, multinv(mod, val) is an x with 0 <= x < mod and (val * x) mod mod = 1 mod mod.
C4_Inverse ==
    (pc = "inverted" /\ gcd(mod, val) = <<1>>) =>
        /\ BLt(inv, mod)
        /\ BMod(BMul(val, inv), mod) = BMod(<<1>>, mod)

\* The same for every modulus of 2 and more, where the code does deliver it.
InverseAboveOne ==
    (pc = "inverted" /\ gcd(mod, val) = <<1>> /\ mod # <<1>>) =>
        /\ BLt(inv, mod)
        /\ BMod(BMul(val, inv), mod) = <<1>>

(***************************************************************************)
(* SpecPrime: is_prime on the integers up to MaxCandidate and on chosen    *)
(* larger ones, each round of rabin_miller drawing its base.               *)
(***************************************************************************)
MaxCandidate == 130

LargeCandidates ==
    {Big(i) : i \in {961, 997, 999, 1000, 1009, 1013, 65537, 917519, 1048573,
                     1009 * 1009, 1009 * 1013, 1013 * 1019}}
    \cup {known_prime, <<8147, 168, 5512, 5>>}   \* 5551201688147 = 2219947 * 2500601

PrimeInit ==
    /\ pc = "is_prime"
    /\ cand \in {Big(i) : i \in 0..MaxCandidate} \cup LargeCandidates
    /\ attempts = 0 /\ verdict = FALSE
    /\ CodecIdle /\ InvIdle /\ FindIdle /\ KeyIdle

\* is_prime up to its call of rabin_miller.
IsPrime ==
    /\ pc = "is_prime"
    /\ LET sieve == IsPrimeSieve(cand)
       IN  /\ pc' = IF sieve = "rabin_miller" THEN "rabin_miller" ELSE "done"
           /\ verdict' = (sieve = "True")
    /\ UNCHANGED <<cand, attempts, codecVars, invVars, findVars, keyVars>>

\* One round of rabin_miller, or what keeps it from its first round.
RabinMiller ==
    /\ pc = "rabin_miller"
    /\ IF RabinMillerStart(cand) # "witness_loop"
       THEN pc' = RabinMillerStart(cand) /\ UNCHANGED <<attempts, verdict>>
       ELSE \E a \in Bases(cand) :
              IF ~RabinMillerRound(cand, a)
              THEN pc' = "done" /\ verdict' = FALSE /\ UNCHANGED attempts
              ELSE /\ attempts' = attempts + 1
                   /\ verdict' = (attempts + 1 = RabinMillerRounds)
                   /\ pc' = IF attempts + 1 = RabinMillerRounds THEN "done" ELSE pc
    /\ UNCHANGED <<cand, codecVars, invVars, findVars, keyVars>>

PrimeNext == IsPrime \/ RabinMiller

SpecPrime == PrimeInit /\ [][PrimeNext]_vars

\* The primes below 1000 and primality below 4,000,000, by their definitions.
PrimesBelow1000 == {k \in 2..999 : \A j \in 2..(k - 1) : k % j # 0}
TrialLimit == 2000
IsPrimeNumber(n) ==
    \/ n = known_prime            \* maths.py's main asserts simple_is_prime of it
    \/ /\ BLt(n, Big(TrialLimit * TrialLimit)) /\ ~BLt(n, <<2>>)
       /\ \A j \in 2..TrialLimit : j * j > Small(n) \/ Small(n) % j # 0

\* C6: is_prime never rejects a prime and raises no exception: it returns True for
\* every prime whatever bases the rounds draw, and False for every n < 2 and every n
\* that a prime below 1000 divides without being that prime.
C6_NoPrimeRejected ==
    /\ pc # "ValueError"
    /\ pc = "done" =>
         /\ IsPrimeNumber(cand) => verdict
         /\ BLt(cand, <<2>>) => ~verdict
         /\ (\E k \in PrimesBelow1000 : BModSmall(cand, k) = 0 /\ cand # <<k>>) => ~verdict

\* The known prime of maths.py's main has passed all the rounds.
C6_Witness ==
    pc = "done" /\ cand = known_prime /\ attempts = RabinMillerRounds /\ verdict

(***************************************************************************)
(* SpecFind: find_random_prime(start, stop) on every pair of bounds up to  *)
(* MaxBound, the empty ranges included, and on chosen ranges above the     *)
(* sieve.  Each pass of the loop draws n; rabin_miller's rounds follow.    *)
(***************************************************************************)
MaxBound == 12

\* 1009 is the least prime above the sieve; 1009^2 is the least composite that no
\* prime of the sieve divides.
LargeRanges ==
    {<<Big(1008), Big(1010)>>, <<Big(1009), Big(1010)>>,
     <<Big(1009 * 1009), Big(1009 * 1009 + 1)>>,
     <<Big(1009 * 1009 - 1), Big(1009 * 1009 + 2)>>,
     <<Big(1010), Big(1009)>>}

FindInit ==
    /\ pc = "find_random_prime"
    /\ \E range \in ({Big(i) : i \in 0..MaxBound} \X {Big(i) : i \in 0..MaxBound})
                      \cup LargeRanges :
           start = range[1] /\ stop = range[2]
    /\ found = <<>>
    /\ cand = <<>> /\ attempts = 0 /\ verdict = FALSE
    /\ CodecIdle /\ InvIdle /\ KeyIdle

\* n = random.randrange(start, stop); is_prime(n) up to its call of rabin_miller.
FindDraw ==
    /\ pc = "find_random_prime"
    /\ IF ~BLt(start, stop)
       THEN pc' = "ValueError" /\ UNCHANGED <<cand, attempts, found>>
       ELSE \E n \in randrange(start, stop, DrawEdge) :
              LET sieve == IsPrimeSieve(n)
              IN  /\ cand' = n
                  /\ attempts' = 0
                  /\ found' = IF sieve = "True" THEN n ELSE found
                  /\ pc' = CASE sieve = "True" -> "returned"
                             [] sieve = "False" -> pc
                             [] OTHER -> "rabin_miller"
    /\ UNCHANGED <<start, stop, verdict, codecVars, invVars, keyVars>>

\* One round of rabin_miller on the draw; after the last one the draw is returned,
\* and a round that fails sends the loop to its next draw.
FindRabinMiller ==
    /\ pc = "rabin_miller"
    /\ IF RabinMillerStart(cand) # "witness_loop"
       THEN pc' = RabinMillerStart(cand) /\ UNCHANGED <<attempts, found>>
       ELSE \E a \in Bases(cand) :
              IF ~RabinMillerRound(cand, a)
              THEN pc' = "find_random_prime" /\ UNCHANGED <<attempts, found>>
              ELSE /\ attempts' = attempts + 1
                   /\ found' = IF attempts + 1 = RabinMillerRounds THEN cand ELSE found
                   /\ pc' = IF attempts + 1 = RabinMillerRounds THEN "returned" ELSE pc
    /\ UNCHANGED <<start, stop, cand, verdict, codecVars, invVars, keyVars>>

FindNext == FindDraw \/ FindRabinMiller

SpecFind == FindInit /\ [][FindNext]_vars

\* The range start..stop-1 holds no prime (for ranges the model draws in full).
NoPrimeInRange ==
    \A n \in randrange(start, stop, DrawEdge) : ~IsPrimeNumber(n)

\* is_prime has classified n as prime: by the sieve, or by all rounds of rabin_miller.
ClassifiedPrime(n) ==
    \/ IsPrimeSieve(n) = "True"
    \/ IsPrimeSieve(n) = "rabin_miller" /\ attempts = RabinMillerRounds

\* C9: find_random_prime never reports an error: for every pair of bounds it either
\* returns n with start <= n < stop that is_prime classified as prime, or keeps
\* drawing forever, which is what happens whenever the range holds no prime, the
\* empty range start >= stop included.
C9_NeverAnError ==
    /\ pc # "ValueError"
    /\ pc = "returned" =>
         BLe(start, found) /\ BLt(found, stop) /\ ClassifiedPrime(found)
    /\ pc = "returned" => ~NoPrimeInRange

\* C9 as the code has it: no error with start < stop, where the call returns an n
\* of the range that is_prime classified as prime (a prime, when n < 1009^2) or
\* keeps drawing, as it does forever when the range holds no prime and ends below
\* 1009^2; with start >= stop the first draw raises ValueError.
C9_ErrorOnlyOnEmptyRange ==
    /\ pc = "ValueError" => ~BLt(start, stop)
    /\ ~BLt(start, stop) => pc \in {"find_random_prime", "ValueError"}
    /\ pc = "returned" =>
         /\ BLe(start, found) /\ BLt(found, stop) /\ ClassifiedPrime(found)
         /\ BLt(found, Big(1009 * 1009)) => IsPrimeNumber(found)
    /\ (pc = "returned" /\ BLe(stop, Big(1009 * 1009))) => ~NoPrimeInRange

\* The empty range start = stop has raised.
C9_Witness == pc = "ValueError" /\ start = stop /\ start # <<>>

\* A range without a prime from which the call has returned all the same.
PseudoprimeReturned ==
    pc = "returned" /\ start = Big(1009 * 1009) /\ found = Big(1009 * 1009)

(***************************************************************************)
(* SpecKey: generate_key_pair(key_size, use_default_exponent) for the key   *)
(* sizes of KeySizes.  get_key_prime runs find_random_prime's loop for p   *)
(* and then for q, and again for both while p == q.                        *)
(***************************************************************************)
\* 1: no prime of that size.  2: the least keys.  8, 16: block_size * 8 for the
\* block sizes 1 and 2, and 9, 17 the sizes just above.  16, 17: 2^16 < DEFAULT_EXP
\* < 2^17.  20: the size of the least prime p with DEFAULT_EXP dividing p - 1.
KeySizes == {1, 2, 8, 9, 16, 17, 20}

KeyInit ==
    /\ pc = "get_p"
    /\ key_size \in KeySizes
    /\ use_default_exponent \in BOOLEAN
    /\ start = KeyPrimeRange(key_size)[1] /\ stop = KeyPrimeRange(key_size)[2]
    /\ p = <<>> /\ q = <<>> /\ e = <<>>
    /\ public_key = <<>> /\ private_key = <<>>
    /\ found = <<>> /\ cand = <<>> /\ attempts = 0 /\ verdict = FALSE
    /\ CodecIdle /\ InvIdle

\* cand and attempts are the draw under rabin_miller and its rounds so far; they are
\* cleared when the draw is settled.
\* find_random_prime has returned n to generate_key_pair's loop.
KeyPrimeFound(n) ==
    IF pc \in {"get_p", "rabin_miller_p"}
    THEN p' = n /\ pc' = "get_q" /\ UNCHANGED q
    ELSE q' = n /\ pc' = (IF p = n THEN "get_p" ELSE "exponent") /\ UNCHANGED p

\* n = random.randrange(start, stop); is_prime(n) up to its call of rabin_miller.
KeyDraw ==
    /\ pc \in {"get_p", "get_q"}
    /\ \E n \in randrange(start, stop, DrawEdge) :
         LET sieve == IsPrimeSieve(n)
         IN  CASE sieve = "True" -> KeyPrimeFound(n) /\ UNCHANGED cand
               [] sieve = "False" -> UNCHANGED <<pc, p, q, cand>>
               [] OTHER -> /\ pc' = (IF pc = "get_p" THEN "rabin_miller_p"
                                     ELSE "rabin_miller_q")
                           /\ cand' = n
                           /\ UNCHANGED <<p, q>>
    /\ UNCHANGED <<key_size, use_default_exponent, e, public_key, private_key,
                   start, stop, found, attempts, verdict, codecVars, invVars>>

\* One round of rabin_miller on the draw.
KeyRabinMiller ==
    /\ pc \in {"rabin_miller_p", "rabin_miller_q"}
    /\ IF RabinMillerStart(cand) # "witness_loop"
       THEN pc' = RabinMillerStart(cand) /\ UNCHANGED <<p, q, cand, attempts>>
       ELSE \E a \in Bases(cand) :
              IF ~RabinMillerRound(cand, a)
              THEN /\ pc' = (IF pc = "rabin_miller_p" THEN "get_p" ELSE "get_q")
                   /\ cand' = <<>> /\ attempts' = 0
                   /\ UNCHANGED <<p, q>>
              ELSE IF attempts + 1 = RabinMillerRounds
                   THEN KeyPrimeFound(cand) /\ cand' = <<>> /\ attempts' = 0
                   ELSE attempts' = attempts + 1 /\ UNCHANGED <<pc, p, q, cand>>
    /\ UNCHANGED <<key_size, use_default_exponent, e, public_key, private_key,
                   start, stop, found, verdict, codecVars, invVars>>

\* The rest of generate_key_pair: n, x, e, d and the two keys.  With
\* use_default_exponent False, get_key_coprime draws e until gcd(e, x) == 1, and
\* randrange raises ValueError when 2**key_size <= DEFAULT_EXP.
KeyExponent ==
    /\ pc = "exponent"
    /\ LET n == BMul(p, q)
           x == Phi(p, q)
           range == KeyCoprimeRange(key_size)
       IN  IF ~use_default_exponent /\ ~BLt(range[1], range[2])
           THEN pc' = "ValueError" /\ UNCHANGED <<e, public_key, private_key>>
           ELSE \E ex \in IF use_default_exponent THEN {Big(DEFAULT_EXP)}
                          ELSE randrange(range[1], range[2], DrawEdge) :
                  /\ use_default_exponent \/ gcd(ex, x) = <<1>>
                  /\ e' = ex
                  /\ public_key' = <<n, ex, key_size>>
                  /\ private_key' = <<n, multinv(x, ex), key_size>>
                  /\ pc' = "generated"
    /\ UNCHANGED <<key_size, use_default_exponent, p, q, start, stop, found, cand,
                   attempts, verdict, codecVars, invVars>>

KeyNext == KeyDraw \/ KeyRabinMiller \/ KeyExponent

SpecKey == KeyInit /\ [][KeyNext]_vars

(***************************************************************************)
(* Claims about the generated keys.                                        *)
(***************************************************************************)
\* C3: every key pair that generate_key_pair returns, with the default exponent or
\* with a random one, is built from primes p and q with p # q, has n = p * q in both
\* keys, gcd(e, (p-1)*(q-1)) = 1 and (e * d) mod ((p-1)*(q-1)) = 1.
C3_KeyValidity ==
    pc = "generated" =>
        /\ IsPrimeNumber(p) /\ IsPrimeNumber(q) /\ p # q
        /\ public_key[1] = BMul(p, q) /\ private_key[1] = BMul(p, q)
        /\ public_key[2] = e
        /\ gcd(e, Phi(p, q)) = <<1>>
        /\ BMod(BMul(e, private_key[2]), Phi(p, q)) = <<1>>

\* C8 as the spec has it: when generate_key_pair(bitSize, False) returns, e is
\* coprime to (p-1)*(q-1) and 2^bitSize <= e < 2^(bitSize+1).
C8_ExponentOfSizeBits ==
    (pc = "generated" /\ ~use_default_exponent) =>
        /\ gcd(e, Phi(p, q)) = <<1>>
        /\ BLe(BPow(<<2>>, key_size), e) /\ BLt(e, BPow(<<2>>, key_size + 1))

\* C8 as the code has it: when generate_key_pair(bitSize, False) returns, e is
\* coprime to (p-1)*(q-1) and DEFAULT_EXP <= e < 2^bitSize, so that it returns only
\* for 2^bitSize > DEFAULT_EXP; for the smaller sizes the draw raises ValueError.
C8_ExponentBelowSize ==
    /\ (pc = "generated" /\ ~use_default_exponent) =>
          /\ gcd(e, Phi(p, q)) = <<1>>
          /\ BLe(Big(DEFAULT_EXP), e) /\ BLt(e, BPow(<<2>>, key_size))
          /\ public_key[2] = e
    /\ pc = "ValueError" =>
          ~use_default_exponent /\ BLe(BPow(<<2>>, key_size), Big(DEFAULT_EXP))

\* A random exponent other than the default one has been drawn.
C8_Witness ==
    /\ pc = "generated" /\ ~use_default_exponent
    /\ BLt(Big(DEFAULT_EXP), e) /\ gcd(e, Phi(p, q)) = <<1>>

(***************************************************************************)
(* SpecCipher: a generated key pair, then encrypt with the public key and  *)
(* decrypt with the private one, for the messages of CipherMessages and    *)
(* every block size up to MaxBlockSize.                                    *)
(***************************************************************************)
\* The empty message, one block, two blocks, a trailing NUL (which text2int
\* strips), and a leading NUL in a message whose last block is not full.
CipherMessages == {<<>>, <<97>>, <<127, 97>>, <<97, 0>>, <<0, 97, 127>>}

Encrypt ==
    /\ pc = "generated"
    /\ \E m \in CipherMessages, size \in 1..MaxBlockSize :
         /\ msg' = m
         /\ block_size' = size
         /\ IF KeyTooSmall(public_key, size)
            THEN pc' = "Exception" /\ UNCHANGED cipher
            ELSE pc' = "encrypted" /\ cipher' = encrypt(m, public_key, size)
    /\ UNCHANGED <<ints, text, invVars, primeVars, findVars, keyVars>>

Decrypt ==
    /\ pc = "encrypted"
    /\ text' = decrypt(cipher, private_key, block_size)
    /\ pc' = "decrypted"
    /\ UNCHANGED <<msg, block_size, ints, cipher, invVars, primeVars, findVars, keyVars>>

CipherNext == KeyNext \/ Encrypt \/ Decrypt

SpecCipher == KeyInit /\ [][CipherNext]_vars

(***************************************************************************)
(* Claims about the cipher.                                                *)
(***************************************************************************)
\* C1: for every key pair that generate_key_pair returns, every block_size >= 1
\* with block_size * 8 below the key's bit size and every ASCII message m without a
\* trailing NUL, decrypt(encrypt(m, pub, block_size), priv, block_size) = m.
C1_EncryptDecrypt ==
    (pc = "decrypted" /\ block_size * 8 < public_key[3] /\ rstrip(msg) = msg) =>
        text = msg

\* C5: encrypt with a key of declared bit size size <= block_size * 8 raises an
\* error and returns no ciphertext block, for every message; with
\* size > block_size * 8 it raises no such error.
C5_SizeCheck ==
    /\ pc \in {"Exception", "encrypted"} =>
          (pc = "Exception" <=> public_key[3] <= block_size * 8)
    /\ pc = "Exception" => cipher = <<>>

\* The boundary: a key of exactly block_size * 8 bits has been refused a message.
C5_Witness ==
    pc = "Exception" /\ public_key[3] = block_size * 8 /\ msg # <<>> /\ cipher = <<>>

====
